---- MODULE Spec2Model ----
(***************************************************************************)
(* eavesarp: ingestion of ARP who-has events into a ledger of IP rows,     *)
(* PTR rows and Transaction rows, merge of ledger snapshots, and the       *)
(* report table (src/eavesarp/eavesarp.py).                                *)
(***************************************************************************)
EXTENDS Naturals, Sequences, FiniteSets, TLC

(* ---------------------------------------------------------------------- *)
(* Bounds                                                                  *)
(* ---------------------------------------------------------------------- *)

\* events one ledger ingests from live capture
MaxEvents == 3
\* sqlite_files given to one analyze call
MaxSqlite == 2
\* pcap_files given to one analyze call
MaxPcap == 1

\* frames on the wire during one do_sniff batch, frames in one capture file
BatchSizes == {1, 2}

\* events captured into one ledger snapshot used as a merge source
SnapshotSizes == {0, 1, 2}

\* the addresses seen on the segment
Addrs == {"A", "B"}

\* Python's None
None == "None"

(* ---------------------------------------------------------------------- *)
(* Ledger rows (sql.py)                                                   *)
(* ---------------------------------------------------------------------- *)

\* Column default of Transaction.count
TransactionDefaultCount == 1

\* IP(value=ip): a new row; id is assigned by the commit
IP(id, value) ==
    [id |-> id, value |-> value, mac_address |-> None,
     arp_resolve_attempted |-> FALSE]

\* PTR(ip_id=..., value=...)
PTR(ip_id, value) == [ip_id |-> ip_id, value |-> value]

\* Transaction(sender_ip_id=..., target_ip_id=..., count=...)
Transaction(sender_ip_id, target_ip_id, count) ==
    [sender_ip_id |-> sender_ip_id, target_ip_id |-> target_ip_id,
     count |-> count]

\* Base.metadata.create_all(engine): the three tables, no rows
EmptyDb == [exists |-> TRUE, ip |-> <<>>, ptr |-> <<>>, transaction |-> <<>>]

\* a database path with no file behind it
NoFile == [exists |-> FALSE, ip |-> <<>>, ptr |-> <<>>, transaction |-> <<>>]

\* Lists.check(value): the allow/deny predicate of one role
ListsCheck(lists, value) == value \in lists.accept

\* no Lists object was passed (sender_lists=None)
NoLists == [present |-> FALSE, accept |-> {}]

\* a Lists object that accepts the addresses in s only
Accept(s) == [present |-> TRUE, accept |-> s]

\* the (sender_lists, target_lists) a run is started with: none, one role
\* restricted, both roles restricted to the same or to different addresses
ListsConfigs ==
    {<<NoLists, NoLists>>, <<Accept({"A"}), NoLists>>,
     <<NoLists, Accept({"B"})>>, <<Accept({"A"}), Accept({"A"})>>,
     <<Accept({"A"}), Accept({"B"})>>}

(* ---------------------------------------------------------------------- *)
(* Helpers                                                                *)
(* ---------------------------------------------------------------------- *)

Min(S) == CHOOSE x \in S : \A y \in S : x <= y

Max(S) == CHOOSE x \in S : \A y \in S : x >= y

\* all sequences over S whose length is in lens
SeqsOfLen(S, lens) == UNION {[1..n -> S] : n \in lens}

\* .first() of a query: the position of the first row satisfying P, 0 if none
First(hits) == IF hits = {} THEN 0 ELSE Min(hits)

\* t.sender / t.target / ip.ptr relationships
IpOf(db, id) == db.ip[id]
PtrsOf(db, id) == SelectSeq(db.ptr, LAMBDA p : p.ip_id = id)

(* ---------------------------------------------------------------------- *)
(* Network collaborators: the answer is an input of the call              *)
(* ---------------------------------------------------------------------- *)

PtrName(a) == "ptr-" \o a
MacName(a) == "mac-" \o a

\* what resolver.query can yield for an address: an exception or a name
ResolverAnswers(a) == {None, PtrName(a)}
\* sr() raising (no permission to open the interface, interface gone)
SrRaises == "raises"
\* what sr() can yield for a target: no answer, the answering hwsrc, or an
\* exception, which arp_request does not catch
SrAnswers(a) == {None, MacName(a), SrRaises}

\* reverse_resolve(ip): the name, or None when the query raised
reverse_resolve(ip, dns) == dns[ip]

\* arp_request(interface, target): results[0][1].hwsrc or None; SrRaises
\* stands for the call ending in the exception of sr()
arp_request(interface, target, arp) == arp[target]

(* ---------------------------------------------------------------------- *)
(* Packets                                                                *)
(* ---------------------------------------------------------------------- *)

\* a captured frame: whether it has an ARP layer, and that layer's fields
RawPackets ==
    {[arp |-> FALSE, op |-> 0, psrc |-> None, pdst |-> None]} \cup
    {[arp |-> TRUE, op |-> 2, psrc |-> "A", pdst |-> "B"]} \cup
    {[arp |-> TRUE, op |-> 1, psrc |-> s, pdst |-> t] :
        s \in Addrs, t \in Addrs}

\* validate_packet(packet): truthy only for an ARP layer with op == 1
validate_packet(packet) == packet.arp /\ packet.op = 1

\* unpack_arp(arp): (psrc, pdst)
unpack_arp(arp) == <<arp.psrc, arp.pdst>>

\* the exception of unpack_arp(None)
AttributeError == "'NoneType' object has no attribute 'psrc'"

\* unpack_packet(packet): getlayer('ARP') is None for a frame without an ARP
\* layer, and unpack_arp raises on it
unpack_packet(packet) == IF packet.arp THEN unpack_arp(packet) ELSE AttributeError

\* filter_packet(packet, sender_lists, target_lists): truthiness of the result
filter_packet(packet, sender_lists, target_lists) ==
    IF ~validate_packet(packet) THEN FALSE
    ELSE LET sender == unpack_arp(packet)[1]
             target == unpack_arp(packet)[2]
         IN  IF sender_lists.present /\ ~ListsCheck(sender_lists, sender)
             THEN FALSE
             ELSE IF target_lists.present /\ ~ListsCheck(target_lists, target)
             THEN FALSE
             ELSE TRUE

\* do_sniff: the frames of the batch that pass lfilter, in arrival order
do_sniff(raw, sender_lists, target_lists) ==
    SelectSeq(raw, LAMBDA p : filter_packet(p, sender_lists, target_lists))

\* @unpack_packets: every packet of the list replaced by its (psrc, pdst)
unpack_packets(packets) ==
    [i \in 1..Len(packets) |-> unpack_packet(packets[i])]

(* ---------------------------------------------------------------------- *)
(* get_or_create_ip                                                       *)
(* A session state st is the ledger plus the log of network calls made:   *)
(* st.db, st.rr_calls[a] (reverse_resolve(a) calls), st.arp_calls[a]      *)
(* (arp_request(.., a) calls).                                            *)
(* ---------------------------------------------------------------------- *)

ZeroCalls == [a \in Addrs |-> 0]

\* query_ip filtering on the wrong column
query_ip_wrong_column(db, ip) == First({i \in 1..Len(db.ip) : db.ip[i].mac_address = ip})

\* db_session.query(IP).filter(IP.value==ip).first(): the row's id, 0 if none
query_ip(db, ip) == First({i \in 1..Len(db.ip) : db.ip[i].value = ip})

\* lines 304-311: the ARP request for a new row when active is set; when
\* arp_request raises, the row stays as line 284 committed it
probe_ip(new, interface, active, arp) ==
    IF active /\ ~new.arp_resolve_attempted
    THEN LET hwaddr == arp_request(interface, new.value, arp)
         IN  IF hwaddr = SrRaises
             THEN [row |-> new, probed |-> TRUE, raised |-> TRUE]
             ELSE [row |-> [new EXCEPT
                              !.mac_address = IF hwaddr # None THEN hwaddr ELSE @,
                              !.arp_resolve_attempted = TRUE],
                   probed |-> TRUE,
                   raised |-> FALSE]
    ELSE [row |-> new, probed |-> FALSE, raised |-> FALSE]

\* lines 282-313: the branch that creates the row. The row is committed at
\* line 284; a PTR added at lines 290-302 is committed only at line 311 or
\* 313, so it is lost when arp_request raises in between
create_ip(ip, st, resolve, ptr, interface, active, dns, arp) ==
    LET db     == st.db
        id     == Len(db.ip) + 1
        new    == IP(id, ip)
        lookup == ptr = None /\ resolve
        name   == IF ptr # None THEN ptr
                  ELSE IF resolve THEN reverse_resolve(ip, dns)
                  ELSE None
        p      == probe_ip(new, interface, active, arp)
        ptrs   == IF name # None /\ ~p.raised
                  THEN Append(db.ptr, PTR(id, name))
                  ELSE db.ptr
    IN  [st |-> [db |-> [db EXCEPT !.ip = Append(@, p.row), !.ptr = ptrs],
                 rr_calls |-> IF lookup
                              THEN [st.rr_calls EXCEPT ![ip] = @ + 1]
                              ELSE st.rr_calls,
                 arp_calls |-> IF p.probed
                               THEN [st.arp_calls EXCEPT ![ip] = @ + 1]
                               ELSE st.arp_calls],
         id |-> id,
         raised |-> p.raised]

\* get_or_create_ip resolving again for an existing row without a PTR
get_or_create_ip_retry(ip, st, resolve, ptr, interface, active, dns, arp) ==
    LET db_ip == query_ip(st.db, ip)
    IN  IF db_ip = 0
        THEN create_ip(ip, st, resolve, ptr, interface, active, dns, arp)
        ELSE IF resolve /\ ptr = None /\ PtrsOf(st.db, db_ip) = <<>>
        THEN [st |-> [st EXCEPT
                        !.rr_calls[ip] = @ + 1,
                        !.db.ptr = IF reverse_resolve(ip, dns) # None
                                   THEN Append(@, PTR(db_ip,
                                                reverse_resolve(ip, dns)))
                                   ELSE @],
              id |-> db_ip,
              raised |-> FALSE]
        ELSE [st |-> st, id |-> db_ip, raised |-> FALSE]

\* get_or_create_ip storing the PTR it is given for an existing row too
get_or_create_ip_store_ptr(ip, st, resolve, ptr, interface, active, dns, arp) ==
    LET db_ip == query_ip(st.db, ip)
    IN  IF db_ip = 0
        THEN create_ip(ip, st, resolve, ptr, interface, active, dns, arp)
        ELSE [st |-> IF ptr # None
                     THEN [st EXCEPT !.db.ptr = Append(@, PTR(db_ip, ptr))]
                     ELSE st,
              id |-> db_ip,
              raised |-> FALSE]

\* get_or_create_ip: the session state after the call and the id of the row
get_or_create_ip(ip, st, resolve, ptr, interface, active, dns, arp) ==
    LET db_ip == query_ip(st.db, ip)
    IN  IF db_ip = 0
        THEN create_ip(ip, st, resolve, ptr, interface, active, dns, arp)
        ELSE [st |-> st, id |-> db_ip, raised |-> FALSE]

(* ---------------------------------------------------------------------- *)
(* handle_packets                                                         *)
(* ---------------------------------------------------------------------- *)

\* db_session.query(Transaction).filter(sender_ip_id==.., target_ip_id==..)
\* .first(): the row's position, 0 if none
query_transaction(db, sender_id, target_id) ==
    First({i \in 1..Len(db.transaction) :
              /\ db.transaction[i].sender_ip_id = sender_id
              /\ db.transaction[i].target_ip_id = target_id})

\* record_transaction without the increment of an existing row
record_transaction_no_increment(db, sender_id, target_id) ==
    LET transaction == query_transaction(db, sender_id, target_id)
    IN  IF transaction = 0
        THEN [db EXCEPT !.transaction =
                 Append(@, Transaction(sender_id, target_id,
                                       TransactionDefaultCount))]
        ELSE db

\* lines 345-361: create the Transaction or add one to its count
record_transaction(db, sender_id, target_id) ==
    LET transaction == query_transaction(db, sender_id, target_id)
    IN  IF transaction = 0
        THEN [db EXCEPT !.transaction =
                 Append(@, Transaction(sender_id, target_id,
                                       TransactionDefaultCount))]
        ELSE [db EXCEPT !.transaction[transaction].count = @ + 1]

\* handle_packet passing active and interface for the sender too
handle_packet_probe_sender(packet, st, resolve, active, interface, dns, arp) ==
    LET s  == get_or_create_ip(packet[1], st, resolve, None, interface,
                               active, dns, arp)
        t  == get_or_create_ip(packet[2], s.st, resolve, None, interface,
                               active, dns, arp)
    IN  IF s.raised THEN [st |-> s.st, raised |-> TRUE]
        ELSE IF t.raised THEN [st |-> t.st, raised |-> TRUE]
        ELSE [st |-> [t.st EXCEPT !.db = record_transaction(@, s.id, t.id)],
              raised |-> FALSE]

\* one iteration of the for loop of handle_packets; raised is TRUE when
\* the probe of the target ended the iteration before the Transaction
handle_packet(packet, st, resolve, active, interface, dns, arp) ==
    LET s  == get_or_create_ip(packet[1], st, resolve, None, None, FALSE,
                               dns, arp)
        t  == get_or_create_ip(packet[2], s.st, resolve, None, interface,
                               active, dns, arp)
    IN  IF t.raised THEN [st |-> t.st, raised |-> TRUE]
        ELSE [st |-> [t.st EXCEPT !.db = record_transaction(@, s.id, t.id)],
              raised |-> FALSE]

\* the for loop of handle_packets: it ends with the batch or with the first
\* iteration that raises; handled counts the iterations that reached line 361
RECURSIVE handle_loop(_, _, _, _, _, _, _)
handle_loop(packets, st, resolve, active, interface, dns, arp) ==
    IF packets = <<>> THEN [st |-> st, raised |-> FALSE, handled |-> 0]
    ELSE LET h == handle_packet(Head(packets), st, resolve, active,
                                interface, dns, arp)
         IN  IF h.raised THEN [st |-> h.st, raised |-> TRUE, handled |-> 0]
             ELSE [handle_loop(Tail(packets), h.st, resolve, active,
                               interface, dns, arp)
                     EXCEPT !.handled = @ + 1]

\* the message of the exception of lines 328-330
InterfaceError == "Active ARP resolution requires an interface ip"
\* the message of the exception sr() ends in
SrError == "Operation not permitted"

\* handle_packets raising only after the loop has handled the batch
handle_packets_check_after_loop(packets, st, resolve, active, interface, dns, arp) ==
    LET r == handle_loop(unpack_packets(packets), st, resolve, active,
                         interface, dns, arp)
    IN  IF \E i \in 1..Len(packets) : unpack_packet(packets[i]) = AttributeError
        THEN [st |-> st, raised |-> AttributeError, handled |-> 0]
        ELSE IF r.raised THEN [r EXCEPT !.raised = SrError]
        ELSE [r EXCEPT !.raised = IF active /\ interface = None
                                  THEN InterfaceError ELSE None]

\* handle_packets(packets, db_session, resolve, active, interface) on raw
\* packets: raised is the message of the exception the call ended in, None
\* when it returned; handled is the number of events it recorded. The
\* decorator unpacks the whole list before the body runs
handle_packets(packets, st, resolve, active, interface, dns, arp) ==
    IF \E i \in 1..Len(packets) : unpack_packet(packets[i]) = AttributeError
    THEN [st |-> st, raised |-> AttributeError, handled |-> 0]
    ELSE IF active /\ interface = None
    THEN [st |-> st, raised |-> InterfaceError, handled |-> 0]
    ELSE LET r == handle_loop(unpack_packets(packets), st, resolve, active,
                              interface, dns, arp)
         IN  [r EXCEPT !.raised = IF @ THEN SrError ELSE None]

(* ---------------------------------------------------------------------- *)
(* Color profiles (color.py)                                              *)
(* ---------------------------------------------------------------------- *)

\* color_profile=None
NoProfile == [present |-> FALSE, target_emoji |-> None]

\* ColorProfiles: 'disable', a practical profile, a novelty profile
ColorProfileValues ==
    {NoProfile,
     [present |-> TRUE, target_emoji |-> None],
     [present |-> TRUE, target_emoji |-> ":fox_face:"]}

odd_style    == "<fg-odd>"
even_style   == "<fg-even>"
header_style == "<fg-header><bold>"
reset_attr   == "<reset>"

\* colored.stylize(v, style)
stylize(v, style) == style \o v \o reset_attr

\* ColorProfile.style_list(values, style)
style_list(values, style) ==
    [i \in 1..Len(values) |-> stylize(values[i], style)]

(* ---------------------------------------------------------------------- *)
(* get_output                                                             *)
(* ---------------------------------------------------------------------- *)

NoRecordsMessage ==
    "- No accepted ARP requests captured\n" \o
    "- If this is unexpected, check your whitelist/blacklist configuration"

\* order_by(desc(Transaction.count)).all(): every order of the rows by
\* descending count; rows of equal count come in an order SQL leaves open
RECURSIVE desc_orders(_, _)
desc_orders(transactions, S) ==
    IF S = {} THEN {<<>>}
    ELSE LET top == {i \in S : \A j \in S :
                        transactions[i].count >= transactions[j].count}
         IN  UNION {{<<transactions[i]>> \o rest :
                        rest \in desc_orders(transactions, S \ {i})} :
                    i \in top}

\* the query without its order_by: the rows in the order of their ids
query_transactions_by_id(db) == {db.transaction}

query_transactions_desc(db) ==
    desc_orders(db.transaction, 1..Len(db.transaction))

\* sploit_char flagging every probed target, answered or not
sploit_char_any_probed(db, t, color_profile) ==
    LET target == IpOf(db, t.target_ip_id)
    IN  IF target.arp_resolve_attempted
        THEN IF color_profile.present /\ color_profile.target_emoji # None
             THEN color_profile.target_emoji
             ELSE "X"
        ELSE ""

\* lines 153-164: the cell of the TS column for one transaction
sploit_char(db, t, color_profile) ==
    LET target == IpOf(db, t.target_ip_id)
    IN  IF target.mac_address = None /\ target.arp_resolve_attempted
        THEN IF color_profile.present /\ color_profile.target_emoji # None
             THEN color_profile.target_emoji
             ELSE "X"
        ELSE ""

\* make_row putting the sender and its PTR on every row
make_row_label_every_row(db, t, new_sender, resolve, active, color_profile) ==
    LET sender == IpOf(db, t.sender_ip_id).value
        target == IpOf(db, t.target_ip_id).value
        base   == <<sender, target>>
        staled == IF active
                  THEN Append(base, sploit_char(db, t, color_profile))
                  ELSE base
        counted == Append(staled, ToString(t.count))
        sp     == PtrsOf(db, t.sender_ip_id)
        tp     == PtrsOf(db, t.target_ip_id)
        sptr   == IF sp # <<>> THEN sp[1].value ELSE ""
        tptr   == IF tp # <<>> THEN tp[1].value ELSE ""
    IN  IF resolve THEN counted \o <<sptr, tptr>> ELSE counted

\* lines 145-181: the row of one transaction
make_row(db, t, new_sender, resolve, active, color_profile) ==
    LET sender == IpOf(db, t.sender_ip_id).value
        target == IpOf(db, t.target_ip_id).value
        base   == IF new_sender THEN <<sender, target>> ELSE <<"", target>>
        staled == IF active
                  THEN Append(base, sploit_char(db, t, color_profile))
                  ELSE base
        counted == Append(staled, ToString(t.count))
        sp     == PtrsOf(db, t.sender_ip_id)
        tp     == PtrsOf(db, t.target_ip_id)
        sptr   == IF sp # <<>> THEN sp[1].value ELSE ""
        tptr   == IF tp # <<>> THEN tp[1].value ELSE ""
    IN  IF resolve
        THEN counted \o <<IF new_sender THEN sptr ELSE "", tptr>>
        ELSE counted

\* lines 134-184: rowdict, as the sequence of its (sender, rows) items in
\* insertion order
RECURSIVE organize(_, _, _, _, _, _, _, _)
organize(db, transactions, rowdict, sender_lists, target_lists, resolve, active, color_profile) ==
    IF transactions = <<>> THEN rowdict
    ELSE
      LET t      == Head(transactions)
          sender == IpOf(db, t.sender_ip_id).value
          target == IpOf(db, t.target_ip_id).value
          k      == First({i \in 1..Len(rowdict) : rowdict[i].sender = sender})
          row    == make_row(db, t, k = 0, resolve, active, color_profile)
          next   ==
            IF sender_lists.present /\ ~ListsCheck(sender_lists, sender)
            THEN rowdict
            ELSE IF target_lists.present /\ ~ListsCheck(target_lists, target)
            THEN rowdict
            ELSE IF k = 0
            THEN Append(rowdict, [sender |-> sender, rows |-> <<row>>])
            ELSE [rowdict EXCEPT ![k].rows = Append(@, row)]
      IN  organize(db, Tail(transactions), next, sender_lists, target_lists,
                   resolve, active, color_profile)

\* lines 186-202: the rows of all groups, styled by the parity of the group
RECURSIVE restructure(_, _, _)
restructure(rowdict, counter, color_profile) ==
    IF counter > Len(rowdict) THEN <<>>
    ELSE LET irows == rowdict[counter].rows
             style == IF counter % 2 = 1 THEN odd_style ELSE even_style
             styled == IF color_profile.present
                       THEN [i \in 1..Len(irows) |->
                                style_list(irows[i], style)]
                       ELSE irows
         IN  styled \o restructure(rowdict, counter + 1, color_profile)

\* lines 204-210
make_headers(resolve, active, color_profile) ==
    LET h0 == IF active THEN <<"Sender", "Target", "TS", "ARP#">>
              ELSE <<"Sender", "Target", "ARP#">>
        h1 == IF resolve THEN h0 \o <<"Sender PTR", "Target PTR">> ELSE h0
    IN  IF color_profile.present THEN style_list(h1, header_style) ELSE h1

\* get_output without the early return for an empty query result
get_output_always_table(db, transactions, sender_lists, target_lists, color_profile, resolve, active) ==
    [kind |-> "table", text |-> "",
     headers |-> make_headers(resolve, active, color_profile),
     rows |-> restructure(
                 organize(db, transactions, <<>>, sender_lists,
                          target_lists, resolve, active, color_profile),
                 1, color_profile)]

\* get_output for one order in which the query returned the transactions
get_output(db, transactions, sender_lists, target_lists, color_profile, resolve, active) ==
    IF transactions = <<>>
    THEN [kind |-> "message", text |-> NoRecordsMessage,
          headers |-> <<>>, rows |-> <<>>]
    ELSE [kind |-> "table", text |-> "",
          headers |-> make_headers(resolve, active, color_profile),
          rows |-> restructure(
                      organize(db, transactions, <<>>, sender_lists,
                               target_lists, resolve, active, color_profile),
                      1, color_profile)]

(* ---------------------------------------------------------------------- *)
(* create_db and the merge loop of analyze                                *)
(* ---------------------------------------------------------------------- *)

\* create_db(dbfile, overwrite): the content of the file the session is
\* bound to, given what was found at the path
create_db(file, overwrite) ==
    IF ~file.exists \/ overwrite THEN EmptyDb ELSE file

\* no network answers: the calls of analyze pass neither resolve nor active
NoAnswers == [a \in Addrs |-> None]

\* merge_transaction counting a source row as one event
merge_transaction_add_one(st, src, t) ==
    LET sp     == PtrsOf(src, t.sender_ip_id)
        tp     == PtrsOf(src, t.target_ip_id)
        sptr   == IF sp # <<>> THEN sp[1].value ELSE None
        tptr   == IF tp # <<>> THEN tp[1].value ELSE None
        sender == get_or_create_ip(IpOf(src, t.sender_ip_id).value, st,
                                   FALSE, sptr, None, FALSE,
                                   NoAnswers, NoAnswers)
        target == get_or_create_ip(IpOf(src, t.target_ip_id).value,
                                   sender.st, FALSE, tptr, None, FALSE,
                                   NoAnswers, NoAnswers)
        d      == target.st.db
        it     == query_transaction(d, sender.id, target.id)
    IN  [target.st EXCEPT !.db =
            IF it # 0
            THEN [d EXCEPT !.transaction[it].count = @ + 1]
            ELSE [d EXCEPT !.transaction =
                     Append(@, Transaction(sender.id, target.id, t.count))]]

\* merge_transaction leaving an existing destination row as it is
merge_transaction_keep(st, src, t) ==
    LET sp     == PtrsOf(src, t.sender_ip_id)
        tp     == PtrsOf(src, t.target_ip_id)
        sptr   == IF sp # <<>> THEN sp[1].value ELSE None
        tptr   == IF tp # <<>> THEN tp[1].value ELSE None
        sender == get_or_create_ip(IpOf(src, t.sender_ip_id).value, st,
                                   FALSE, sptr, None, FALSE,
                                   NoAnswers, NoAnswers)
        target == get_or_create_ip(IpOf(src, t.target_ip_id).value,
                                   sender.st, FALSE, tptr, None, FALSE,
                                   NoAnswers, NoAnswers)
        d      == target.st.db
        it     == query_transaction(d, sender.id, target.id)
    IN  [target.st EXCEPT !.db =
            IF it # 0
            THEN d
            ELSE [d EXCEPT !.transaction =
                     Append(@, Transaction(sender.id, target.id, t.count))]]

\* merge_transaction setting an existing destination row to the source count
merge_transaction_overwrite(st, src, t) ==
    LET sp     == PtrsOf(src, t.sender_ip_id)
        tp     == PtrsOf(src, t.target_ip_id)
        sptr   == IF sp # <<>> THEN sp[1].value ELSE None
        tptr   == IF tp # <<>> THEN tp[1].value ELSE None
        sender == get_or_create_ip(IpOf(src, t.sender_ip_id).value, st,
                                   FALSE, sptr, None, FALSE,
                                   NoAnswers, NoAnswers)
        target == get_or_create_ip(IpOf(src, t.target_ip_id).value,
                                   sender.st, FALSE, tptr, None, FALSE,
                                   NoAnswers, NoAnswers)
        d      == target.st.db
        it     == query_transaction(d, sender.id, target.id)
    IN  [target.st EXCEPT !.db =
            IF it # 0
            THEN [d EXCEPT !.transaction[it].count = t.count]
            ELSE [d EXCEPT !.transaction =
                     Append(@, Transaction(sender.id, target.id, t.count))]]

\* lines 461-501: one Transaction t of the source ledger src is transferred
merge_transaction(st, src, t) ==
    LET sp     == PtrsOf(src, t.sender_ip_id)
        tp     == PtrsOf(src, t.target_ip_id)
        sptr   == IF sp # <<>> THEN sp[1].value ELSE None
        tptr   == IF tp # <<>> THEN tp[1].value ELSE None
        sender == get_or_create_ip(IpOf(src, t.sender_ip_id).value, st,
                                   FALSE, sptr, None, FALSE,
                                   NoAnswers, NoAnswers)
        target == get_or_create_ip(IpOf(src, t.target_ip_id).value,
                                   sender.st, FALSE, tptr, None, FALSE,
                                   NoAnswers, NoAnswers)
        d      == target.st.db
        it     == query_transaction(d, sender.id, target.id)
    IN  [target.st EXCEPT !.db =
            IF it # 0
            THEN [d EXCEPT !.transaction[it].count = @ + t.count]
            ELSE [d EXCEPT !.transaction =
                     Append(@, Transaction(sender.id, target.id, t.count))]]

\* lines 455-501: for t in isess.query(Transaction).all()
RECURSIVE merge_loop(_, _, _)
merge_loop(st, src, transactions) ==
    IF transactions = <<>> THEN st
    ELSE merge_loop(merge_transaction(st, src, Head(transactions)), src,
                    Tail(transactions))

\* lines 447-501 for one sfile whose content is src
merge_file(st, src) ==
    merge_loop(st, create_db(src, FALSE), create_db(src, FALSE).transaction)

\* lines 513-522 for one pfile whose frames are raw
import_pcap(st, raw) ==
    handle_packets(
        SelectSeq(raw, LAMBDA p : filter_packet(p, NoLists, NoLists)),
        st, FALSE, FALSE, None, NoAnswers, NoAnswers)

(* ---------------------------------------------------------------------- *)
(* State                                                                  *)
(* ---------------------------------------------------------------------- *)

VARIABLES
    db,            \* the ledger file: tables ip, ptr, transaction
    rr_calls,      \* rr_calls[a]: reverse_resolve(a) calls made so far
    arp_calls,     \* arp_calls[a]: arp_request(interface, a) calls made so far
    seen,          \* seen[<<s, t>>]: events (s, t) handle_packets has recorded
    sender_lists,  \* the Lists object of the sender role for this run
    target_lists,  \* the Lists object of the target role for this run
    out,           \* what the last call returned (or raised)
    pc,            \* "idle", the loop analyze is in ("sqlite", "pcap"), or the
                   \* commit or blocking call async_sniff stands at
    nsql,          \* sqlite_files the running analyze has merged
    npcap,         \* pcap_files the running analyze has imported
    proc,          \* proc[p]: the position of caller p in a concurrent run
    run            \* the arguments of the running async_sniff, the events it has
                   \* not recorded yet, and the PTR it holds uncommitted

vars == <<db, rr_calls, arp_calls, seen, sender_lists, target_lists, out,
          pc, nsql, npcap, proc, run>>

session == [db |-> db, rr_calls |-> rr_calls, arp_calls |-> arp_calls]

Events == Addrs \X Addrs

RECURSIVE SumOver(_, _)
SumOver(f, S) ==
    IF S = {} THEN 0
    ELSE LET x == CHOOSE y \in S : TRUE IN f[x] + SumOver(f, S \ {x})

\* occurrences of event e in a sequence of (sender, target) pairs
Occurrences(events, e) == Cardinality({i \in 1..Len(events) : events[i] = e})

NoOutput == [kind |-> "none", text |-> "", headers |-> <<>>, rows |-> <<>>]

ErrorOutput(text) ==
    [kind |-> "error", text |-> text, headers |-> <<>>, rows |-> <<>>]

\* the sessions that work on one ledger at the same time
Callers == {1, 2}

\* no caller is running
NoCallers ==
    [p \in Callers |->
        [pc |-> "none", event |-> <<None, None>>, found |-> 0,
         sender_id |-> 0, target_id |-> 0, read |-> 0]]

\* the blocking calls async_sniff can wait in
Waits == {"sniff", "sender_resolve", "target_resolve", "target_probe"}

\* the commits that change the ledger file, by where the call stands after
\* them: line 284 (sender_created, target_created), 311 or 313 with a PTR or
\* a probe result (sender_done, target_done), 361 (recorded)
Commits == {"sender_created", "sender_done", "target_created", "target_done", "recorded"}

\* no async_sniff call is running
NoRun == [resolve |-> FALSE, active |-> FALSE, interface |-> None, events |-> <<>>, ptr |-> None]

Init ==
    /\ proc = NoCallers
    /\ run = NoRun
    /\ db = NoFile
    /\ rr_calls = ZeroCalls
    /\ arp_calls = ZeroCalls
    /\ seen = [e \in Events |-> 0]
    /\ \E c \in ListsConfigs : sender_lists = c[1] /\ target_lists = c[2]
    /\ out = NoOutput
    /\ pc = "idle"
    /\ nsql = 0
    /\ npcap = 0

(* ---------------------------------------------------------------------- *)
(* async_sniff, commit by commit                                          *)
(*                                                                        *)
(* The session commits at lines 284, 311, 313 and 361, and the call       *)
(* blocks in sniff() (lines 365-370), in resolver.query (line 244, inside *)
(* reverse_resolve) and in sr() (lines 74-80, inside arp_request). What   *)
(* is committed is in the ledger file for every other session to read,    *)
(* and it stays when the worker process is ended. One step of the model   *)
(* runs to the next commit that changes the ledger file or to the next    *)
(* blocking call, whichever comes first, so the commit of a new row and   *)
(* the entry into the lookup or the probe of that row are two steps; pc   *)
(* is where the call stands.                                              *)
(* ---------------------------------------------------------------------- *)

\* lines 282-284: the new row, committed
insert_ip(st, ip) == [st EXCEPT !.db.ip = Append(@, IP(Len(@) + 1, ip))]

\* lines 290-302 with the commit of line 311 or 313: the PTR row of address ip
add_ptr(st, ip, name) == IF name = None THEN st ELSE [st EXCEPT !.db.ptr = Append(@, PTR(query_ip(st.db, ip), name))]

\* the call stands at: st is what it has committed and the calls it has
\* made, events the events it has not recorded, ptr the name the session
\* holds for the target without having committed it, recorded the event
\* whose Transaction the step has committed
Stop(st, events, at, ptr, recorded) == [st |-> st, events |-> events, at |-> at, ptr |-> ptr, recorded |-> recorded]

\* run_record without a Transaction for a self query
run_record_skip_self(st, events) ==
    LET e == Head(events)
        d == IF e[1] = e[2] THEN st.db
             ELSE record_transaction(st.db, query_ip(st.db, e[1]), query_ip(st.db, e[2]))
    IN  Stop([st EXCEPT !.db = d], Tail(events), "recorded", None, <<e>>)

\* lines 345-361 for the current event: the Transaction, committed
run_record(st, events) ==
    LET e == Head(events)
        d == record_transaction(st.db, query_ip(st.db, e[1]), query_ip(st.db, e[2]))
    IN  Stop([st EXCEPT !.db = d], Tail(events), "recorded", None, <<e>>)

\* lines 338-339 for the current event: the row of the target is looked up;
\* a new row is committed (line 284), and the call stands after that commit
run_target(st, events, resolve, active) ==
    LET target == Head(events)[2]
    IN  IF query_ip(st.db, target) # 0 THEN run_record(st, events)
        ELSE Stop(insert_ip(st, target), events, "target_created", None, <<>>)

\* the for loop of handle_packets from the start of an iteration (line 337):
\* the row of the sender is looked up; a new row is committed (line 284),
\* and the call stands after that commit
run_events(st, events, resolve, active) ==
    IF events = <<>> THEN Stop(st, <<>>, "return", None, <<>>)
    ELSE LET sender == Head(events)[1]
         IN  IF query_ip(st.db, sender) # 0 THEN run_target(st, events, resolve, active)
             ELSE Stop(insert_ip(st, sender), events, "sender_created", None, <<>>)

\* lines 287-296 after the commit of the sender's new row: with resolve set
\* the call goes into resolver.query, otherwise on to the target (the commit
\* of line 313 changes nothing in the file)
resume_sender_created(st, events, resolve, active) ==
    IF resolve
    THEN Stop([st EXCEPT !.rr_calls[Head(events)[1]] = @ + 1], events, "sender_resolve", None, <<>>)
    ELSE run_target(st, events, resolve, active)

\* lines 287-306 after the commit of the target's new row: with resolve set
\* the call goes into resolver.query, with only active set into sr(),
\* otherwise on to the Transaction
resume_target_created(st, events, resolve, active) ==
    IF resolve
    THEN Stop([st EXCEPT !.rr_calls[Head(events)[2]] = @ + 1], events, "target_resolve", None, <<>>)
    ELSE IF active
    THEN Stop([st EXCEPT !.arp_calls[Head(events)[2]] = @ + 1], events, "target_probe", None, <<>>)
    ELSE run_record(st, events)

\* resolver.query has ended for the sender (name is None when it raised):
\* lines 298-302 and the commit of line 313, which changes the file only
\* when there is a name
resume_sender_resolve(st, events, resolve, active, name) ==
    IF name = None THEN run_target(st, events, resolve, active)
    ELSE Stop(add_ptr(st, Head(events)[1], name), events, "sender_done", None, <<>>)

\* resolver.query has ended for the target: the PTR is added to the session
\* (lines 298-302); with active set the call goes into sr() before it
\* commits, otherwise line 313 commits
resume_target_resolve(st, events, resolve, active, name) ==
    IF active
    THEN Stop([st EXCEPT !.arp_calls[Head(events)[2]] = @ + 1], events, "target_probe", name, <<>>)
    ELSE IF name = None THEN run_record(st, events)
    ELSE Stop(add_ptr(st, Head(events)[2], name), events, "target_done", None, <<>>)

\* sr() has ended for the target: with its exception the call ends and what
\* the session held is lost; otherwise lines 307-311 commit the probe and
\* the PTR
resume_target_probe(st, events, interface, ptr, hwaddr) ==
    LET target == Head(events)[2]
        id     == query_ip(st.db, target)
        p      == probe_ip(st.db.ip[id], interface, TRUE, [a \in Addrs |-> hwaddr])
    IN  IF p.raised THEN Stop(st, events, "raised", None, <<>>)
        ELSE Stop(add_ptr([st EXCEPT !.db.ip[id] = p.row], target, ptr), events, "target_done", None, <<>>)

\* the call goes on from a commit: into the enrichment of a new row after
\* line 284, to the target after the sender, to the Transaction after the
\* target, to the next iteration or the end of the loop after the
\* Transaction
resume_commit(st, events, resolve, active, at) ==
    IF at = "sender_created" THEN resume_sender_created(st, events, resolve, active)
    ELSE IF at = "target_created" THEN resume_target_created(st, events, resolve, active)
    ELSE IF at = "sender_done" THEN run_target(st, events, resolve, active)
    ELSE IF at = "target_done" THEN run_record(st, events)
    ELSE run_events(st, events, resolve, active)

\* the step of async_sniff that ends as r says: at a commit or a blocking
\* call, with the exception of sr(), or returning the report (lines 420-427)
Proceed(r) ==
    /\ db' = r.st.db
    /\ rr_calls' = r.st.rr_calls
    /\ arp_calls' = r.st.arp_calls
    /\ seen' = [e \in Events |-> seen[e] + Occurrences(r.recorded, e)]
    /\ IF r.at = "return"
       THEN /\ pc' = "idle"
            /\ run' = NoRun
            /\ \E color_profile \in ColorProfileValues :
               \E transactions \in query_transactions_desc(r.st.db) :
                 out' = get_output(r.st.db, transactions, sender_lists, target_lists, color_profile, run.resolve, run.active)
       ELSE IF r.at = "raised"
       THEN /\ pc' = "idle"
            /\ run' = NoRun
            /\ out' = ErrorOutput(SrError)
       ELSE /\ pc' = r.at
            /\ run' = [run EXCEPT !.events = r.events, !.ptr = r.ptr]
            /\ out' = out
    /\ UNCHANGED <<proc, sender_lists, target_lists, nsql, npcap>>

\* lines 382-402: async_sniff is called, creates the ledger file if there is
\* none, and blocks in sniff()
AsyncSniff ==
    /\ pc = "idle"
    /\ out = NoOutput
    /\ \E resolve \in BOOLEAN, active \in BOOLEAN, interface \in {None, "eth0"} :
         /\ active \/ interface = None
         /\ run' = [NoRun EXCEPT !.resolve = resolve, !.active = active, !.interface = interface]
    /\ db' = create_db(db, FALSE)
    /\ pc' = "sniff"
    /\ UNCHANGED <<proc, rr_calls, arp_calls, seen, sender_lists, target_lists, out, nsql, npcap>>

\* lines 405-417: sniff() returns the packets the filter let through (none
\* of them, possibly) and handle_packets starts; it raises at once when
\* active is set without an interface
DoSniff ==
    /\ pc = "sniff"
    /\ \E packets \in {do_sniff(raw, sender_lists, target_lists) : raw \in SeqsOfLen(RawPackets, BatchSizes)} :
         /\ SumOver(seen, Events) + Len(packets) <= MaxEvents
         /\ IF run.active /\ run.interface = None
            THEN /\ out' = ErrorOutput(handle_packets(packets, session, run.resolve, run.active, run.interface, NoAnswers, NoAnswers).raised)
                 /\ pc' = "idle"
                 /\ run' = NoRun
                 /\ UNCHANGED <<proc, db, rr_calls, arp_calls, seen, sender_lists, target_lists, nsql, npcap>>
            ELSE Proceed(run_events(session, unpack_packets(packets), run.resolve, run.active))

\* resolver.query ends for the new sender
ResolveSender ==
    /\ pc = "sender_resolve"
    /\ \E name \in ResolverAnswers(Head(run.events)[1]) :
         Proceed(resume_sender_resolve(session, run.events, run.resolve, run.active, name))

\* resolver.query ends for the new target
ResolveTarget ==
    /\ pc = "target_resolve"
    /\ \E name \in ResolverAnswers(Head(run.events)[2]) :
         Proceed(resume_target_resolve(session, run.events, run.resolve, run.active, name))

\* sr() ends for the new target
ProbeTarget ==
    /\ pc = "target_probe"
    /\ \E hwaddr \in SrAnswers(Head(run.events)[2]) :
         Proceed(resume_target_probe(session, run.events, run.interface, run.ptr, hwaddr))

\* the call goes on after a commit
Commit ==
    /\ pc \in Commits
    /\ Proceed(resume_commit(session, run.events, run.resolve, run.active, pc))

\* lines 375-379: the worker process is ended, wherever the call stands; the
\* ledger file keeps what was committed, nothing is returned
EndWorker ==
    /\ pc \in Waits \cup Commits
    /\ pc' = "idle"
    /\ run' = NoRun
    /\ UNCHANGED <<proc, db, rr_calls, arp_calls, seen, sender_lists, target_lists, out, nsql, npcap>>

\* the caller prints the returned report and goes on to the next call
ShowOutput ==
    /\ out # NoOutput
    /\ out' = NoOutput
    /\ UNCHANGED <<proc, run, db, rr_calls, arp_calls, seen, sender_lists, target_lists,
                   pc, nsql, npcap>>

Next ==
    \/ AsyncSniff
    \/ DoSniff
    \/ ResolveSender
    \/ ResolveTarget
    \/ ProbeTarget
    \/ Commit
    \/ EndWorker
    \/ ShowOutput

\* live capture: batches sniffed into one ledger
Spec == Init /\ [][Next]_vars

(* ---------------------------------------------------------------------- *)
(* analyze                                                                *)
(* ---------------------------------------------------------------------- *)

\* a ledger snapshot: what a capture session with name resolution leaves in
\* its database file after the events, when the addresses in named resolve
Snapshot(events, named) ==
    handle_loop(events,
                [db |-> create_db(NoFile, FALSE), rr_calls |-> ZeroCalls,
                 arp_calls |-> ZeroCalls],
                TRUE, FALSE, None,
                [a \in Addrs |-> IF a \in named THEN PtrName(a) ELSE None],
                NoAnswers).st.db

\* the snapshot files an analyze call can be given
Snapshots ==
    {Snapshot(events, named) :
        events \in SeqsOfLen(Events, SnapshotSizes),
        named \in {{}, Addrs}}

\* line 436: the output database is created, removing what was there
AnalyzeStart ==
    /\ pc = "idle"
    /\ out = NoOutput
    /\ db' = create_db(db, TRUE)
    /\ pc' = "sqlite"
    /\ nsql' = 0
    /\ npcap' = 0
    /\ UNCHANGED <<proc, run, rr_calls, arp_calls, seen, sender_lists, target_lists, out>>

\* lines 447-501: the next file of sqlite_files is merged; a path with no
\* file behind it is opened by create_db as a new, empty database
AnalyzeSqlite ==
    /\ pc = "sqlite"
    /\ nsql < MaxSqlite
    /\ \E src \in Snapshots \cup {NoFile} :
         LET st == merge_file(session, src)
         IN  /\ db' = st.db
             /\ rr_calls' = st.rr_calls
             /\ arp_calls' = st.arp_calls
    /\ nsql' = nsql + 1
    /\ UNCHANGED <<proc, run, seen, sender_lists, target_lists, out, pc, npcap>>

\* lines 513-522: the next file of pcap_files is imported
AnalyzePcap ==
    /\ pc \in {"sqlite", "pcap"}
    /\ npcap < MaxPcap
    /\ \E raw \in SeqsOfLen(RawPackets, BatchSizes) :
         LET r == import_pcap(session, raw)
         IN  /\ db' = r.st.db
             /\ rr_calls' = r.st.rr_calls
             /\ arp_calls' = r.st.arp_calls
    /\ pc' = "pcap"
    /\ npcap' = npcap + 1
    /\ UNCHANGED <<proc, run, seen, sender_lists, target_lists, out, nsql>>

\* the exception of rdpcap for a path with no file behind it
FileNotFound == ErrorOutput("No such file or directory")

\* line 516 for a pfile that does not exist: rdpcap raises and analyze ends
\* in the exception, the output database left as the loops made it
AnalyzePcapMissing ==
    /\ pc \in {"sqlite", "pcap"}
    /\ npcap < MaxPcap
    /\ out' = FileNotFound
    /\ pc' = "idle"
    /\ UNCHANGED <<proc, run, db, rr_calls, arp_calls, seen, sender_lists, target_lists,
                   nsql, npcap>>

\* lines 524-529: the report of the output database is returned
AnalyzeReturn ==
    /\ pc \in {"sqlite", "pcap"}
    /\ \E resolve \in BOOLEAN, color_profile \in ColorProfileValues :
       \E transactions \in query_transactions_desc(db) :
         out' = get_output(db, transactions, sender_lists, target_lists,
                           color_profile, resolve, FALSE)
    /\ pc' = "idle"
    /\ UNCHANGED <<proc, run, db, rr_calls, arp_calls, seen, sender_lists, target_lists,
                   nsql, npcap>>

NextAnalyze ==
    \/ AnalyzeStart
    \/ AnalyzeSqlite
    \/ AnalyzePcap
    \/ AnalyzePcapMissing
    \/ AnalyzeReturn
    \/ ShowOutput

\* offline import: analyze calls on one output database
SpecAnalyze == Init /\ [][NextAnalyze]_vars

(* ---------------------------------------------------------------------- *)
(* Reading a ledger                                                       *)
(* ---------------------------------------------------------------------- *)

\* the Transaction rows of ledger d whose sender has value e[1] and whose
\* target has value e[2]
TransactionsOf(d, e) ==
    {i \in 1..Len(d.transaction) :
        /\ IpOf(d, d.transaction[i].sender_ip_id).value = e[1]
        /\ IpOf(d, d.transaction[i].target_ip_id).value = e[2]}

RECURSIVE SumCounts(_, _)
SumCounts(d, S) ==
    IF S = {} THEN 0
    ELSE LET i == CHOOSE x \in S : TRUE
         IN  d.transaction[i].count + SumCounts(d, S \ {i})

\* the count ledger d holds for the ordered pair e, 0 when it has no row
CountOf(d, e) == SumCounts(d, TransactionsOf(d, e))

\* the IP rows of ledger d with value a
RowsOf(d, a) == {i \in 1..Len(d.ip) : d.ip[i].value = a}

\* ledger d holds at most one Transaction per ordered pair
OneRowPerPair(d) == \A e \in Events : Cardinality(TransactionsOf(d, e)) <= 1

(* ---------------------------------------------------------------------- *)
(* C1                                                                     *)
(* ---------------------------------------------------------------------- *)

\* C1: in a ledger that started empty, after any batches handle_packets has
\* ingested, every ordered pair (S,T) that occurred n > 0 times has exactly
\* one Transaction and its count is n, and a pair that never occurred has no
\* Transaction.
C1_CountEqualsOccurrences ==
    \A e \in Events :
        /\ Cardinality(TransactionsOf(db, e)) = (IF seen[e] > 0 THEN 1 ELSE 0)
        /\ CountOf(db, e) = seen[e]

\* MaxEvents identical events (A,B) were ingested in more than one batch and
\* the Transaction of (A,B) counts them all
C1_Witness ==
    /\ seen[<<"A", "B">>] = MaxEvents
    /\ CountOf(db, <<"A", "B">>) = MaxEvents
    /\ Len(db.transaction) = 1

(* ---------------------------------------------------------------------- *)
(* C2                                                                     *)
(* ---------------------------------------------------------------------- *)

\* the arguments get_or_create_ip can be called with for address a, the
\* answers of the network included: a carried-over ptr, resolve with or
\* without an answer, active with or without an answer
IpCallArgs(a) ==
    {c \in [resolve : BOOLEAN, ptr : {None, PtrName(a)},
            interface : {None, "eth0"}, active : BOOLEAN,
            dns : {NoAnswers, [x \in Addrs |-> PtrName(x)]},
            arp : {NoAnswers, [x \in Addrs |-> MacName(x)],
                   [x \in Addrs |-> SrRaises]}] :
        /\ c.interface = "eth0" <=> c.active
        /\ c.dns # NoAnswers => c.resolve /\ c.ptr = None
        /\ c.arp # NoAnswers => c.active}

CallIp(a, st, c) ==
    get_or_create_ip(a, st, c.resolve, c.ptr, c.interface, c.active,
                     c.dns, c.arp)

\* C2: in every ledger reached by merges and packet imports no two IP rows
\* have the same value, and get_or_create_ip called again for an address,
\* with any resolve/ptr/active arguments, returns the row the first call
\* created and changes nothing.
C2_IdempotentNoDuplicates ==
    /\ \A a \in Addrs : Cardinality(RowsOf(db, a)) <= 1
    /\ \A a \in Addrs : \A c1 \in IpCallArgs(a) :
         LET r1 == CallIp(a, session, c1)
         IN  /\ IpOf(r1.st.db, r1.id).value = a
             /\ RowsOf(db, a) # {} => r1.st = session /\ r1.id \in RowsOf(db, a)
             /\ RowsOf(db, a) = {} =>
                  \A c2 \in IpCallArgs(a) :
                     LET r2 == CallIp(a, r1.st, c2)
                     IN  r2.id = r1.id /\ r2.st = r1.st

\* both addresses were referenced by a merged snapshot and by an imported
\* capture file, and each has its one row
C2_Witness ==
    /\ nsql >= 1
    /\ npcap = 1
    /\ Len(db.ip) = 2
    /\ Len(db.transaction) >= 3
    /\ \A a \in Addrs : Cardinality(RowsOf(db, a)) = 1

(* ---------------------------------------------------------------------- *)
(* C3, C4                                                                 *)
(* ---------------------------------------------------------------------- *)

\* ledger d holds exactly one Transaction, for the pair e, with count n
OnlyPair(d, e, n) ==
    /\ Len(d.transaction) = 1
    /\ TransactionsOf(d, e) = {1}
    /\ d.transaction[1].count = n

\* C3: when analyze is in its merge loop, merging any snapshot into the
\* output ledger makes the count of every pair the sum of the destination
\* count and the source count: a pair absent from the destination gets the
\* source count, a pair absent from the source keeps its count, and each
\* pair has one Transaction at most.
C3_MergeAddsCounts ==
    pc = "sqlite" =>
        \A src \in Snapshots :
            LET m == merge_file(session, src).db
            IN  \A e \in Events :
                  /\ CountOf(m, e) = CountOf(db, e) + CountOf(src, e)
                  /\ Cardinality(TransactionsOf(m, e)) =
                        (IF CountOf(db, e) + CountOf(src, e) > 0 THEN 1 ELSE 0)

\* the output ledger is {(A,B):3}, and merging the snapshot {(A,B):2}
\* yields {(A,B):5}
C3_Witness ==
    /\ pc = "sqlite"
    /\ nsql >= 1
    /\ OnlyPair(db, <<"A", "B">>, 3)
    /\ \E src \in Snapshots :
         /\ OnlyPair(src, <<"A", "B">>, 2)
         /\ OnlyPair(merge_file(session, src).db, <<"A", "B">>, 5)

\* the session state after the same snapshot was merged twice
MergedTwice(st, src) == merge_file(merge_file(st, src), src)

\* C4 as stated: merging {(A,B):2} twice into {(A,B):3} yields {(A,B):8}.
C4_Original ==
    pc = "sqlite" /\ OnlyPair(db, <<"A", "B">>, 3) =>
        \A src \in Snapshots :
            OnlyPair(src, <<"A", "B">>, 2) =>
                OnlyPair(MergedTwice(session, src).db, <<"A", "B">>, 8)

\* C4 (amended): merging the same snapshot twice adds its counts twice, so
\* the second merge changes the ledger again whenever the snapshot holds a
\* Transaction; merging {(A,B):2} twice into {(A,B):3} yields {(A,B):7}.
C4_MergeTwiceAddsTwice ==
    pc = "sqlite" =>
        \A src \in Snapshots :
            LET m1 == merge_file(session, src).db
                m2 == MergedTwice(session, src).db
            IN  /\ \A e \in Events :
                     CountOf(m2, e) = CountOf(db, e) + 2 * CountOf(src, e)
                /\ src.transaction # <<>> => m2 # m1
                /\ OnlyPair(db, <<"A", "B">>, 3) /\ OnlyPair(src, <<"A", "B">>, 2)
                     => OnlyPair(m2, <<"A", "B">>, 7)

\* the output ledger is {(A,B):3}, and the snapshot {(A,B):2} merged twice
\* leaves {(A,B):7}
C4_Witness ==
    /\ pc = "sqlite"
    /\ nsql >= 1
    /\ OnlyPair(db, <<"A", "B">>, 3)
    /\ \E src \in Snapshots :
         /\ OnlyPair(src, <<"A", "B">>, 2)
         /\ OnlyPair(MergedTwice(session, src).db, <<"A", "B">>, 7)

(* ---------------------------------------------------------------------- *)
(* Reading a report                                                       *)
(* ---------------------------------------------------------------------- *)

\* cell shows the text v, plain or in one of the styles of a profile
CellIs(cell, v) ==
    \/ cell = v
    \/ \E style \in {odd_style, even_style, header_style} :
          cell = stylize(v, style)

\* the column of report o whose header is name, 0 when it has none
Column(o, name) == First({i \in 1..Len(o.headers) : CellIs(o.headers[i], name)})

\* the address shown in the Target cell of row i of report o
RowTarget(o, i) == CHOOSE a \in Addrs : CellIs(o.rows[i][Column(o, "Target")], a)

\* the one IP row of address a
RowOf(d, a) == d.ip[CHOOSE i \in RowsOf(d, a) : TRUE]

(* ---------------------------------------------------------------------- *)
(* C5, C6                                                                 *)
(* ---------------------------------------------------------------------- *)

\* the PTR rows ledger d holds for address a
PtrRowsOf(d, a) ==
    {k \in 1..Len(d.ptr) : d.ptr[k].ip_id \in RowsOf(d, a)}

\* the last call ran with resolve set: its report has the PTR columns
LastCallResolved == out.kind = "table" /\ Column(out, "Sender PTR") # 0

\* the last call ran with active set: its report has the TS column
LastCallActive == out.kind = "table" /\ Column(out, "TS") # 0

\* C5: over any batches, reverse_resolve is called at most once for an
\* address, and only in the call that created its row; a PTR row exists only
\* after that one lookup, a lookup without an answer stores no PTR row, and
\* a later call for the address with resolve set looks nothing up.
C5_ResolveAtMostOnce ==
    \A a \in Addrs :
        /\ rr_calls[a] <= 1
        /\ rr_calls[a] = 1 => RowsOf(db, a) # {}
        /\ Cardinality(PtrRowsOf(db, a)) <= rr_calls[a]
        /\ \A c \in {x \in IpCallArgs(a) : x.resolve /\ x.ptr = None} :
             LET r == CallIp(a, session, c)
             IN  IF RowsOf(db, a) # {}
                 THEN r.st.rr_calls = rr_calls /\ r.st.db.ptr = db.ptr
                 ELSE /\ r.st.rr_calls[a] = 1
                      /\ c.dns[a] = None => r.st.db.ptr = db.ptr
                      /\ r.raised => r.st.db.ptr = db.ptr
                      /\ c.dns[a] # None /\ ~r.raised =>
                           r.st.db.ptr = Append(db.ptr, PTR(r.id, c.dns[a]))

\* A was looked up once without an answer and has no PTR row, although every
\* one of MaxEvents events named it and the last batch ran with resolve set
C5_Witness ==
    /\ seen[<<"A", "A">>] = MaxEvents
    /\ rr_calls["A"] = 1
    /\ db.ptr = <<>>
    /\ LastCallResolved

\* address a has a row whose arp_resolve_attempted is set
Attempted(d, a) == \E i \in RowsOf(d, a) : d.ip[i].arp_resolve_attempted

\* C6: over any batches arp_request is issued at most once for an address,
\* and once the call that issued it has ended (it has returned its report or
\* raised, out holds which), the row of the address has
\* arp_resolve_attempted set, whatever the outcome of the request.
C6_Original ==
    \A a \in Addrs :
        /\ arp_calls[a] <= 1
        /\ pc = "idle" /\ out # NoOutput /\ arp_calls[a] = 1 => Attempted(db, a)

(* ---------------------------------------------------------------------- *)
(* C7                                                                     *)
(* ---------------------------------------------------------------------- *)

\* the sender filter of the run rejects address x
SenderRejected(x) == sender_lists.present /\ ~ListsCheck(sender_lists, x)

\* C7 as stated, for the import of a capture file by analyze: it creates no
\* Transaction whose sender the allow/deny filter rejects, and adds to the
\* count of none.
C7_Original ==
    [][npcap' = npcap + 1 =>
         \A x \in Addrs :
            SenderRejected(x) =>
               \A e \in Events : e[1] = x => CountOf(db', e) = CountOf(db, e)]_vars

(* ---------------------------------------------------------------------- *)
(* C8                                                                     *)
(* ---------------------------------------------------------------------- *)

\* C8: in a report made with active set, the TS cell of a row is non-empty
\* exactly when the row's target has arp_resolve_attempted set and no
\* mac_address.
C8_FlagIffUnanswered ==
    LastCallActive =>
        \A i \in 1..Len(out.rows) :
            LET target == RowOf(db, RowTarget(out, i))
            IN  ~CellIs(out.rows[i][Column(out, "TS")], "") <=>
                    target.arp_resolve_attempted /\ target.mac_address = None

\* the report has a row whose target was created in a batch with active set
\* and did not answer: the row shows the flag and mac_address is unset
C8_Witness ==
    /\ LastCallActive
    /\ \E i \in 1..Len(out.rows) :
         /\ arp_calls[RowTarget(out, i)] = 1
         /\ RowOf(db, RowTarget(out, i)).mac_address = None
         /\ ~CellIs(out.rows[i][Column(out, "TS")], "")

(* ---------------------------------------------------------------------- *)
(* C9                                                                     *)
(* ---------------------------------------------------------------------- *)

\* the largest count a ledger of the model can hold
MaxCount == MaxEvents + MaxSqlite * Max(SnapshotSizes) + MaxPcap * Max(BatchSizes)

\* the count shown in the ARP# cell of row i of report o
RowCount(o, i) ==
    CHOOSE n \in 0..MaxCount : CellIs(o.rows[i][Column(o, "ARP#")], ToString(n))

\* row i of report o opens the group of a sender: its Sender cell is filled
GroupStart(o, i) == ~CellIs(o.rows[i][Column(o, "Sender")], "")

\* rows i < j of report o belong to the group of the same sender
SameGroup(o, i, j) == \A k \in (i + 1)..j : ~GroupStart(o, k)

\* C9 as stated: the rows of a report come in non-increasing order of their
\* count over the whole table.
C9_Original ==
    out.kind = "table" =>
        \A i, j \in 1..Len(out.rows) :
            i < j => RowCount(out, i) >= RowCount(out, j)

\* C9 (amended): the rows of a report are grouped by sender; within the
\* group of one sender the counts are non-increasing, and the first rows of
\* the groups come in non-increasing order of their count.
C9_OrderedWithinGroups ==
    out.kind = "table" =>
        \A i, j \in 1..Len(out.rows) :
            i < j =>
                /\ SameGroup(out, i, j) => RowCount(out, i) >= RowCount(out, j)
                /\ GroupStart(out, i) /\ GroupStart(out, j) =>
                     RowCount(out, i) >= RowCount(out, j)

\* a report of three rows and two senders in which the second row of the
\* first sender has a smaller count than the row of the second sender
C9_Witness ==
    /\ out.kind = "table"
    /\ Len(out.rows) = 3
    /\ GroupStart(out, 1) /\ ~GroupStart(out, 2) /\ GroupStart(out, 3)
    /\ RowCount(out, 1) > RowCount(out, 3)
    /\ RowCount(out, 3) > RowCount(out, 2)

(* ---------------------------------------------------------------------- *)
(* C10                                                                    *)
(* ---------------------------------------------------------------------- *)

\* C10: get_output on a ledger without a Transaction returns the fixed
\* message and no table; on a ledger with a Transaction it returns a table.
C10_MessageIffEmpty ==
    out.kind \in {"message", "table"} =>
        /\ out.kind = "message" <=> db.transaction = <<>>
        /\ out.kind = "message" =>
             /\ out.text = "- No accepted ARP requests captured\n- If this is unexpected, check your whitelist/blacklist configuration"
             /\ out.headers = <<>> /\ out.rows = <<>>
        /\ out.kind = "table" => out.text = "" /\ out.headers # <<>>

\* analyze merged MaxSqlite snapshots without a Transaction and reported the
\* message for the empty ledger
C10_Witness ==
    /\ pc = "idle"
    /\ nsql = MaxSqlite
    /\ db.exists /\ db.transaction = <<>>
    /\ out.kind = "message"

(* ---------------------------------------------------------------------- *)
(* C11                                                                    *)
(* ---------------------------------------------------------------------- *)

\* the batches sniff can hand to handle_packets: the frames the filter lets
\* through, none included
Batches ==
    {do_sniff(raw, NoLists, NoLists) : raw \in SeqsOfLen(RawPackets, BatchSizes)}

\* a network in which every lookup and every probe is answered
AllPtrAnswers == [a \in Addrs |-> PtrName(a)]
AllArpAnswers == [a \in Addrs |-> MacName(a)]

\* the last call ended in the exception of handle_packets
ConfigurationError ==
    /\ out.kind = "error"
    /\ out.text = InterfaceError

\* C11: handle_packets with active set and no interface raises for every
\* batch, the empty one included, and returns the session as it was given:
\* no lookup, no probe, no IP, PTR or Transaction row added or changed; a
\* call that ended in the exception left the ledger tables, the call logs
\* and the recorded events as they were.
C11_RaisesBeforeAnyWork ==
    /\ [](\A packets \in Batches, resolve \in BOOLEAN :
            handle_packets(packets, session, resolve, TRUE, None,
                           AllPtrAnswers, AllArpAnswers)
              = [st |-> session, raised |-> InterfaceError, handled |-> 0])
    /\ [][ConfigurationError' =>
            /\ db'.ip = db.ip /\ db'.ptr = db.ptr
            /\ db'.transaction = db.transaction
            /\ rr_calls' = rr_calls /\ arp_calls' = arp_calls
            /\ seen' = seen]_vars

\* a call with active set and no interface has raised on a ledger that
\* holds only the self query of A: B was neither created nor probed
C11_Witness ==
    /\ ConfigurationError
    /\ CountOf(db, <<"A", "A">>) >= 1
    /\ RowsOf(db, "B") = {}
    /\ arp_calls = ZeroCalls

(* ---------------------------------------------------------------------- *)
(* C12                                                                    *)
(* ---------------------------------------------------------------------- *)

\* C12 as stated: analyze given an input file that does not exist reports
\* "not found" before anything is processed: opening a missing snapshot
\* creates no file, and when the error for a missing capture file is
\* reported the output database has not been created and no input has been
\* merged or imported.
C12_Original ==
    /\ pc = "sqlite" => ~create_db(NoFile, FALSE).exists
    /\ out = FileNotFound => ~db.exists /\ nsql = 0 /\ npcap = 0

(* ---------------------------------------------------------------------- *)
(* Two sessions on one ledger                                             *)
(* ---------------------------------------------------------------------- *)

\* Address(value unique): the commit of a second row with a value the table
\* already holds fails
ip_insert_conflicts(d, value) == query_ip(d, value) # 0

\* uniqueness constraint on (sender_ref, target_ref): the commit of a second
\* row for a pair the table already holds fails
transaction_insert_conflicts(d, sender_id, target_id) ==
    query_transaction(d, sender_id, target_id) # 0

\* the ledgers a concurrent run can start on: empty, or one recorded event
StartLedgers == {Snapshot(events, {}) : events \in SeqsOfLen(Events, {0, 1})}

\* each caller is about to handle one event with handle_packets (resolve
\* and active off); seen counts the events of the ledger and of the callers
InitConcurrent ==
    /\ run = NoRun
    /\ db \in StartLedgers
    /\ \E given \in [Callers -> Events] :
         /\ proc = [p \in Callers |->
                      [pc |-> "sender_query", event |-> given[p], found |-> 0,
                       sender_id |-> 0, target_id |-> 0, read |-> 0]]
         /\ seen = [e \in Events |->
                      CountOf(db, e) + Cardinality({p \in Callers : given[p] = e})]
    /\ rr_calls = ZeroCalls
    /\ arp_calls = ZeroCalls
    /\ sender_lists = NoLists
    /\ target_lists = NoLists
    /\ out = NoOutput
    /\ pc = "idle"
    /\ nsql = 0
    /\ npcap = 0

\* the address caller p is getting or creating
Address(p) ==
    IF proc[p].pc \in {"sender_query", "sender_insert"}
    THEN proc[p].event[1] ELSE proc[p].event[2]

\* caller p has the id of the row of its address and goes on
WithId(p, id) ==
    IF proc[p].pc \in {"sender_query", "sender_insert"}
    THEN [proc EXCEPT ![p].sender_id = id, ![p].pc = "target_query"]
    ELSE [proc EXCEPT ![p].target_id = id, ![p].pc = "tx_query"]

\* line 278: the lookup of get_or_create_ip; line 315 when a row is found
IpQuery(p) ==
    /\ proc[p].pc \in {"sender_query", "target_query"}
    /\ LET db_ip == query_ip(db, Address(p))
       IN  proc' = IF db_ip # 0 THEN WithId(p, db_ip)
                   ELSE [proc EXCEPT
                           ![p].pc = IF proc[p].pc = "sender_query"
                                     THEN "sender_insert" ELSE "target_insert"]
    /\ UNCHANGED <<run, db, rr_calls, arp_calls, seen, sender_lists, target_lists,
                   out, pc, nsql, npcap>>

\* lines 282-284: the insert and commit of the row the lookup did not find;
\* the commit raises when another session has inserted the value since
IpInsert(p) ==
    /\ proc[p].pc \in {"sender_insert", "target_insert"}
    /\ IF ip_insert_conflicts(db, Address(p))
       THEN /\ proc' = [proc EXCEPT ![p].pc = "failed"]
            /\ db' = db
       ELSE LET r == create_ip(Address(p), session, FALSE, None, None, FALSE,
                               NoAnswers, NoAnswers)
            IN  /\ db' = r.st.db
                /\ proc' = WithId(p, r.id)
    /\ UNCHANGED <<run, rr_calls, arp_calls, seen, sender_lists, target_lists,
                   out, pc, nsql, npcap>>

\* lines 345-349: the lookup of the Transaction and of its count
TxQuery(p) ==
    /\ proc[p].pc = "tx_query"
    /\ LET transaction == query_transaction(db, proc[p].sender_id,
                                            proc[p].target_id)
       IN  proc' = [proc EXCEPT
                      ![p].found = transaction,
                      ![p].read = IF transaction = 0 THEN 0
                                  ELSE db.transaction[transaction].count,
                      ![p].pc = "tx_commit"]
    /\ UNCHANGED <<run, db, rr_calls, arp_calls, seen, sender_lists, target_lists,
                   out, pc, nsql, npcap>>

\* lines 351-361: the new row, or the count the session read plus one, is
\* committed; the commit of a new row raises when the pair has a row by now
TxCommit(p) ==
    /\ proc[p].pc = "tx_commit"
    /\ IF proc[p].found # 0
       THEN /\ db' = [db EXCEPT !.transaction[proc[p].found].count =
                                    proc[p].read + 1]
            /\ proc' = [proc EXCEPT ![p].pc = "done"]
       ELSE IF transaction_insert_conflicts(db, proc[p].sender_id,
                                            proc[p].target_id)
       THEN /\ db' = db
            /\ proc' = [proc EXCEPT ![p].pc = "failed"]
       ELSE /\ db' = [db EXCEPT !.transaction =
                        Append(@, Transaction(proc[p].sender_id,
                                              proc[p].target_id,
                                              TransactionDefaultCount))]
            /\ proc' = [proc EXCEPT ![p].pc = "done"]
    /\ UNCHANGED <<run, rr_calls, arp_calls, seen, sender_lists, target_lists,
                   out, pc, nsql, npcap>>

NextConcurrent ==
    \E p \in Callers : IpQuery(p) \/ IpInsert(p) \/ TxQuery(p) \/ TxCommit(p)

\* two sessions, each handling one event, interleaved at their queries and
\* commits
SpecConcurrent == InitConcurrent /\ [][NextConcurrent]_vars

(* ---------------------------------------------------------------------- *)
(* C13, C14                                                               *)
(* ---------------------------------------------------------------------- *)

\* caller p is past get_or_create_ip for the sender of its event
PastSender(p) ==
    proc[p].pc \in {"target_query", "target_insert", "tx_query", "tx_commit",
                    "done"}

\* C13 as stated: when two callers get or create the same address at the
\* same time, neither ends in an exception, and once both are past the call
\* they hold the same id and the address has exactly one row.
C13_Original ==
    \A p, q \in Callers :
        (p # q /\ proc[p].event[1] = proc[q].event[1]) =>
            /\ proc[p].pc # "failed"
            /\ (PastSender(p) /\ PastSender(q)) =>
                 /\ proc[p].sender_id = proc[q].sender_id
                 /\ Cardinality(RowsOf(db, proc[p].event[1])) = 1

\* C14 as stated: when both callers have recorded their event, the count of
\* every pair is the number of events recorded for it, with one Transaction
\* per pair.
C14_Original ==
    (\A p \in Callers : proc[p].pc = "done") =>
        \A e \in Events :
            /\ CountOf(db, e) = seen[e]
            /\ Cardinality(TransactionsOf(db, e)) <= 1

(* ---------------------------------------------------------------------- *)
(* C15                                                                    *)
(* ---------------------------------------------------------------------- *)

\* every row of ledger d is a row of ledger e: same place, same key, and for
\* a Transaction a count that is not smaller
Keeps(d, e) ==
    /\ Len(d.ip) <= Len(e.ip)
    /\ \A i \in 1..Len(d.ip) :
         e.ip[i].id = d.ip[i].id /\ e.ip[i].value = d.ip[i].value
    /\ Len(d.transaction) <= Len(e.transaction)
    /\ \A i \in 1..Len(d.transaction) :
         /\ e.transaction[i].sender_ip_id = d.transaction[i].sender_ip_id
         /\ e.transaction[i].target_ip_id = d.transaction[i].target_ip_id
         /\ e.transaction[i].count >= d.transaction[i].count

\* the step in which analyze creates its output database anew
NewOutput == pc = "idle" /\ pc' = "sqlite"

\* C15: in every ledger reached by snapshot merges and batches of
\* handle_packets there is at most one Transaction per ordered pair of
\* sender and target and every count is at least 1; no merge and no batch
\* lowers a count or removes a Transaction or an IP row.
C15_LedgerInvariants ==
    /\ [](/\ \A i, j \in 1..Len(db.transaction) :
               (/\ db.transaction[i].sender_ip_id = db.transaction[j].sender_ip_id
                /\ db.transaction[i].target_ip_id = db.transaction[j].target_ip_id)
                   => i = j
          /\ \A i \in 1..Len(db.transaction) : db.transaction[i].count >= 1
          /\ \A a \in Addrs : Cardinality(RowsOf(db, a)) <= 1)
    /\ [][NewOutput \/ Keeps(db, db')]_vars

\* after merges and an imported capture file the ledger holds (A,B) and
\* (B,A) as two Transactions, one of them incremented more than once
C15_Witness ==
    /\ nsql = MaxSqlite
    /\ npcap = MaxPcap
    /\ CountOf(db, <<"A", "B">>) >= 3
    /\ CountOf(db, <<"B", "A">>) >= 1
    /\ Len(db.transaction) = 2

(* ---------------------------------------------------------------------- *)
(* C16                                                                    *)
(* ---------------------------------------------------------------------- *)

\* the sender whose group row i of report o belongs to: the label of the
\* last row at or before i that opens a group
GroupOf(o, i) ==
    LET k == Max({j \in 1..i : GroupStart(o, j)})
    IN  CHOOSE a \in Addrs : CellIs(o.rows[k][Column(o, "Sender")], a)

\* the Transactions of ledger d the report-time checks of the lists let
\* through
Rendered(d) ==
    {k \in 1..Len(d.transaction) :
        /\ sender_lists.present =>
             ListsCheck(sender_lists, IpOf(d, d.transaction[k].sender_ip_id).value)
        /\ target_lists.present =>
             ListsCheck(target_lists, IpOf(d, d.transaction[k].target_ip_id).value)}

\* the text of the first PTR of address a in ledger d, "" when it has none
FirstPtr(d, a) ==
    LET ptrs == PtrsOf(d, RowOf(d, a).id)
    IN  IF ptrs # <<>> THEN ptrs[1].value ELSE ""

\* C16: a report with rows starts with the first row of a group; each
\* sender opens exactly one group; the rows are, one to one, the
\* Transactions the lists let through, each in the group of its sender, so
\* the rows of a sender are contiguous; counts do not increase inside a
\* group nor from the first row of one group to the first row of the next;
\* and the sender's PTR is shown on the first row of its group only.
C16_GroupedBySender ==
    (out.kind = "table" /\ out.rows # <<>>) =>
        LET n == Len(out.rows) IN
        /\ GroupStart(out, 1)
        /\ \A i, j \in 1..n :
             (i # j /\ GroupStart(out, i) /\ GroupStart(out, j)) =>
                 GroupOf(out, i) # GroupOf(out, j)
        /\ n = Cardinality(Rendered(db))
        /\ \A i \in 1..n :
             CountOf(db, <<GroupOf(out, i), RowTarget(out, i)>>) = RowCount(out, i)
        /\ \A i, j \in 1..n :
             (i # j /\ GroupOf(out, i) = GroupOf(out, j)) =>
                 RowTarget(out, i) # RowTarget(out, j)
        /\ \A i, j \in 1..n :
             i < j =>
               /\ SameGroup(out, i, j) => RowCount(out, i) >= RowCount(out, j)
               /\ (GroupStart(out, i) /\ GroupStart(out, j)) =>
                    RowCount(out, i) >= RowCount(out, j)
        /\ Column(out, "Sender PTR") # 0 =>
             \A i \in 1..n :
                CellIs(out.rows[i][Column(out, "Sender PTR")],
                       IF GroupStart(out, i)
                       THEN FirstPtr(db, GroupOf(out, i)) ELSE "")

\* a report of four rows in two groups of two, with the PTR of each sender
\* on the first row of its group
C16_Witness ==
    /\ out.kind = "table"
    /\ Len(out.rows) = 4
    /\ GroupStart(out, 1) /\ ~GroupStart(out, 2)
    /\ GroupStart(out, 3) /\ ~GroupStart(out, 4)
    /\ Column(out, "Sender PTR") # 0
    /\ ~CellIs(out.rows[1][Column(out, "Sender PTR")], "")
    /\ ~CellIs(out.rows[3][Column(out, "Sender PTR")], "")

(* ---------------------------------------------------------------------- *)
(* C17                                                                    *)
(* ---------------------------------------------------------------------- *)

\* the PTR values ledger d holds for address a, in the order of their rows
PtrValues(d, a) ==
    IF RowsOf(d, a) = {} THEN <<>>
    ELSE LET ptrs == PtrsOf(d, RowOf(d, a).id)
         IN  [k \in 1..Len(ptrs) |-> ptrs[k].value]

\* C17: merging any snapshot into the output ledger calls reverse_resolve
\* for no address; an address that had a row before the merge keeps its PTR
\* rows as they were; an address the merge creates gets the value of the
\* first PTR of the source address as its only PTR, and none when the
\* source address has none.
C17_MergeCarriesPtr ==
    pc = "sqlite" =>
        \A src \in Snapshots :
            LET m == merge_file(session, src)
            IN  /\ m.rr_calls = rr_calls
                /\ m.arp_calls = arp_calls
                /\ \A a \in Addrs :
                     IF RowsOf(db, a) # {}
                     THEN PtrValues(m.db, a) = PtrValues(db, a)
                     ELSE PtrValues(m.db, a) =
                            IF PtrValues(src, a) # <<>>
                            THEN <<PtrValues(src, a)[1]>> ELSE <<>>

\* the output ledger holds A without a PTR and not B; a snapshot that names
\* both is merged: B is created with its PTR and A still has none
C17_Witness ==
    /\ pc = "sqlite"
    /\ RowsOf(db, "A") # {} /\ PtrValues(db, "A") = <<>>
    /\ RowsOf(db, "B") = {}
    /\ \E src \in Snapshots :
         /\ PtrValues(src, "A") # <<>> /\ PtrValues(src, "B") # <<>>
         /\ PtrValues(merge_file(session, src).db, "B") = <<PtrName("B")>>
         /\ PtrValues(merge_file(session, src).db, "A") = <<>>

(* ---------------------------------------------------------------------- *)
(* C18                                                                    *)
(* ---------------------------------------------------------------------- *)

\* C18 as stated: get_output never returns a table without rows; when the
\* lists let no Transaction through, it returns the message for no records.
C18_Original ==
    /\ out.kind = "table" => out.rows # <<>>
    /\ (out.kind \in {"message", "table"} /\ Rendered(db) = {}) =>
         out.kind = "message" /\ out.text = NoRecordsMessage

(* ---------------------------------------------------------------------- *)
(* C19                                                                    *)
(* ---------------------------------------------------------------------- *)

\* the first event of the sequence events that names address a, 0 if none
FirstNaming(events, a) ==
    First({k \in 1..Len(events) : a \in {events[k][1], events[k][2]}})

\* address a has a row in ledger d that was never probed
Unprobed(d, a) ==
    /\ RowsOf(d, a) # {}
    /\ ~RowOf(d, a).arp_resolve_attempted
    /\ RowOf(d, a).mac_address = None

\* the addresses of the event the running call is in
CurrentEvent == IF run.events = <<>> THEN {} ELSE {Head(run.events)[1], Head(run.events)[2]}

\* the running call has created the row of a as the target of its current
\* event and stands after that commit, or in the reverse lookup or the probe
\* of a
TargetInFlight(a) == pc \in {"target_created", "target_resolve", "target_probe"} /\ Head(run.events)[2] = a

\* C19: with active set, a batch probes an address only when the address
\* has no row and the first event of the batch that names it names it as
\* target and not as sender; an address created as a sender (the self query
\* included) or created earlier without a probe is never probed by a later
\* event, keeps arp_resolve_attempted false and mac_address unset, and its
\* rows in a report show no flag. Commit by commit: sr() is called for a
\* only by a call with active set, for the target of its current event,
\* whose sender is another address that has its row already, and only when
\* the call itself has created the row of a, in the step before this one or
\* before the reverse lookup of a; the probe result is committed
\* only by the step that ends this sr(); every other step leaves an unprobed
\* row unprobed.
C19_ProbedOnlyWhenCreatedAsTarget ==
    /\ [](/\ \A a \in Addrs : Attempted(db, a) => arp_calls[a] = 1
          /\ pc = "idle" => \A packets \in Batches :
               LET events == unpack_packets(packets)
                   r      == handle_packets(packets, session, FALSE, TRUE,
                                            "eth0", NoAnswers, AllArpAnswers).st
               IN  \A a \in Addrs :
                   LET k == FirstNaming(events, a)
                   IN  IF RowsOf(db, a) = {} /\ k # 0 /\ events[k][1] # a
                       THEN /\ r.arp_calls[a] = arp_calls[a] + 1
                            /\ Attempted(r.db, a)
                       ELSE /\ r.arp_calls[a] = arp_calls[a]
                            /\ k # 0 /\ RowsOf(db, a) = {} => Unprobed(r.db, a)
                            /\ Unprobed(db, a) => Unprobed(r.db, a)
          /\ LastCallActive =>
               \A i \in 1..Len(out.rows) :
                  Unprobed(db, RowTarget(out, i)) =>
                      CellIs(out.rows[i][Column(out, "TS")], ""))
    /\ [][\A a \in Addrs :
            arp_calls'[a] # arp_calls[a] =>
                /\ arp_calls'[a] = arp_calls[a] + 1
                /\ pc' = "target_probe"
                /\ run'.active
                /\ Head(run'.events)[2] = a
                /\ Head(run'.events)[1] # a
                /\ RowsOf(db, Head(run'.events)[1]) # {}
                /\ Unprobed(db', a)
                /\ pc \in {"target_created", "target_resolve"}
                /\ run.events = run'.events]_vars
    /\ [][(pc' = "target_resolve") =>
             /\ pc = "target_created"
             /\ run.events = run'.events]_vars
    /\ [][(pc' = "target_created") =>
             /\ RowsOf(db, Head(run'.events)[2]) = {}
             /\ Unprobed(db', Head(run'.events)[2])
             /\ Head(run'.events)[1] # Head(run'.events)[2]]_vars
    /\ [][\A a \in Addrs :
            (Attempted(db', a) /\ ~Attempted(db, a)) =>
                /\ pc = "target_probe"
                /\ pc' = "target_done"
                /\ Head(run.events)[2] = a]_vars
    /\ [][\A a \in Addrs :
            Unprobed(db, a) /\ ~TargetInFlight(a) =>
                Unprobed(db', a) /\ arp_calls'[a] = arp_calls[a]]_vars

\* A was created as the sender of (A,B) and B was probed as its target; a
\* later event (B,A) of a batch with active set named A as target, and A is
\* still unprobed
C19_Witness ==
    /\ LastCallActive
    /\ Attempted(db, "B")
    /\ Unprobed(db, "A")
    /\ arp_calls["A"] = 0
    /\ CountOf(db, <<"A", "B">>) >= 1
    /\ CountOf(db, <<"B", "A">>) >= 1

(* ---------------------------------------------------------------------- *)
(* C20                                                                    *)
(* ---------------------------------------------------------------------- *)

\* address a of ledger d is the sender or the target of a Transaction
Referenced(d, a) ==
    \E e \in Events : a \in {e[1], e[2]} /\ TransactionsOf(d, e) # {}

\* the addresses of ledger d that have a row and no Transaction
Orphans(d) == {a \in Addrs : RowsOf(d, a) # {} /\ ~Referenced(d, a)}

\* C20 as stated: an Address Entity without a Transaction that is in the
\* ledger when no call is running was left by an enrichment step that
\* aborted its event, and it is unprobed.
C20_Original ==
    pc = "idle" =>
        \A a \in Orphans(db) :
            /\ Unprobed(db, a)
            /\ \E b \in Addrs : rr_calls[b] >= 1 \/ arp_calls[b] >= 1

\* C20 (amended): a step that commits the Transaction of an event leaves
\* both addresses of the event referenced, and so does the transfer of any
\* one source Transaction by a merge. Rows without a Transaction are created
\* only inside an event, for the addresses of that event; no step between
\* two events and no returning call adds one. They stay in the file when the
\* call ends inside the event: sr() raises, or the worker process is ended
\* after the commit of a row and before the commit of the Transaction. Such
\* a row is unprobed, or holds the result of the one probe issued for it
\* (the call ended after that commit), and no later step probes it or
\* changes it.
C20_OrphansOnlyInsideEvent ==
    /\ [](/\ \A a \in Orphans(db) :
               Unprobed(db, a) \/ (Attempted(db, a) /\ arp_calls[a] = 1)
          /\ pc = "idle" /\ db.exists =>
               \A e \in Events, named \in {{}, Addrs} :
                  LET src == Snapshot(<<e>>, named)
                  IN  \A k \in 1..Len(src.transaction) :
                         Orphans(merge_transaction(session, src,
                                                   src.transaction[k]).db)
                             \subseteq Orphans(db))
    /\ [][\A e \in Events :
            seen'[e] > seen[e] =>
                /\ CountOf(db', e) = CountOf(db, e) + 1
                /\ Referenced(db', e[1]) /\ Referenced(db', e[2])]_vars
    /\ [][Orphans(db') \subseteq
             Orphans(db) \cup (IF pc' \in (Waits \cup Commits) \ {"sniff", "recorded"}
                               THEN CurrentEvent' ELSE {})]_vars
    /\ [][(pc # "idle" /\ pc' = "idle" /\ out'.kind \in {"table", "message"}) =>
             /\ pc \in {"sniff", "recorded"}
             /\ db'.ip = db.ip]_vars
    /\ [][\A a \in Orphans(db) :
            ~TargetInFlight(a) =>
                /\ RowOf(db', a) = RowOf(db, a)
                /\ arp_calls'[a] = arp_calls[a]]_vars

\* the worker process was ended after the probe result of B, the new target
\* of an event (A,B), was committed and before the Transaction was; a later
\* call has recorded a self query of A and returned its report: B has a row
\* with arp_resolve_attempted set and no Transaction
C20_Witness ==
    /\ pc = "idle"
    /\ out.kind = "table"
    /\ Orphans(db) = {"B"}
    /\ CountOf(db, <<"A", "A">>) >= 1
    /\ arp_calls["B"] = 1
    /\ Attempted(db, "B")

====
